---- MODULE Spec2Model ----
(***************************************************************************)
(* Model of the recommendation / learning-path engine of skillstudio-v2:   *)
(*   - LearningPathGenerator.generate_learning_path (ai_recommendations)   *)
(*   - RecommendationEngine scoring and ranking (ai_recommendations)       *)
(*   - generate_learning_path endpoint and its snapshots (api/dashboard)   *)
(*   - AdaptiveAssessmentEngine.get_next_question (adaptive_assessment)    *)
(*   - SkillAssessor (skill_assessment)                                    *)
(*   - SkillGapAnalyzer.analyze_skill_gaps (ai_recommendations)            *)
(*   - RecommendationEngine.generate_learning_path and                     *)
(*     recommend_next_lesson (recommendation_engine)                       *)
(*   - AdaptiveAssessmentEngine.calculate_adaptive_score                   *)
(*   - get_current_learning_path (api/dashboard)                           *)
(* Each subsystem has its own specification over the shared variables;     *)
(* the variables of the other subsystems stay at their initial value.      *)
(***************************************************************************)
EXTENDS Integers, Sequences, FiniteSets, TLC

VARIABLES
    \* ---- path planner (LearningPathGenerator.generate_learning_path)
    all_courses,          \* rows of the Course query, in the order returned
    current_skills,       \* set(profile.skill_levels.keys())
    target_skills,        \* set(goal.target_skills)
    study_hours_per_week, \* profile.study_hours_per_week
    inv,                  \* which invocation of the planner is running (1 or 2)
    pc,                   \* "loop" while the while-loop runs, "done" after return
    path_courses,         \* path_courses of the running invocation
    learned_skills,
    skill_gaps,
    iteration,
    results,              \* results[k]: the dict returned by invocation k
    \* ---- generate-learning-path endpoint (api/dashboard.py)
    snapshots,            \* rows of learning_path_snapshots, in insertion order
    requests,             \* the generate-learning-path requests in progress or done
    current_path,         \* what the last GET /learning-path without goal_id returned
    \* ---- course recommendations (RecommendationEngine, ai_recommendations.py)
    available_courses,    \* rows _get_available_courses returned, in that order
    user_context,         \* the dict _get_user_context returned
    scored_courses,       \* scored_courses after the sort
    recommendations,      \* the list get_personalized_recommendations returned
    rec_limit,            \* the limit it was called with (-1 before the call)
    \* ---- adaptive assessment (AdaptiveAssessmentEngine.get_next_question)
    all_questions,        \* the assessment's questions in catalog order
    previous_answers,     \* the answer history the caller supplies
    served,               \* what the calls of get_next_question returned, in order
    \* ---- skill levels (SkillAssessor)
    skill_op,             \* which method is called, and whether it has returned
    attempts,             \* the user's attempts, most recent first: the score each
                          \* holds for the skill asked about
    history_level,        \* what calculate_skill_from_history returned
    diag_questions,       \* the diagnostic's questions with the grading of the answers
    profile,              \* the user's LearnerProfile row
    skill_levels,         \* the levels process_diagnostic_assessment returned
    knowledge_gaps,       \* the gaps it returned
    \* ---- skill gap analysis (SkillGapAnalyzer.analyze_skill_gaps)
    gap_profile,          \* the user's profile row joined to the user
    gap_goals,            \* target_skills of the user's active goals
    gap_analysis,         \* the dict analyze_skill_gaps returned
    \* ---- path generation of the dashboard (RecommendationEngine.generate_learning_path)
    engine_profile,       \* the user's LearnerProfile row
    engine_goal,          \* the LearningGoal row of goal_id
    engine_courses,       \* the published courses, in the order of the query
    engine_result,        \* what generate_learning_path returned
    \* ---- adaptive score (AdaptiveAssessmentEngine.calculate_adaptive_score)
    score_questions,      \* the assessment's questions
    score_answers,        \* the answers handed to calculate_adaptive_score
    score_result,         \* the dict it returned
    \* ---- next lesson (RecommendationEngine.recommend_next_lesson)
    lesson_enrolled,      \* whether the Enrollment row of enrollment_id exists
    lessons_with_modules, \* the course's lessons in (module order, lesson order)
    completed_lesson_ids, \* ids of the lessons the user has completed
    next_lesson           \* what recommend_next_lesson returned

plannerVars == <<all_courses, current_skills, target_skills, study_hours_per_week,
                 inv, pc, path_courses, learned_skills, skill_gaps, iteration,
                 results>>

snapshotVars == <<snapshots, requests, current_path>>

recommendVars == <<available_courses, user_context, scored_courses, recommendations,
                   rec_limit>>

adaptiveVars == <<all_questions, previous_answers, served>>

skillVars == <<skill_op, attempts, history_level, diag_questions, profile,
               skill_levels, knowledge_gaps>>

gapVars == <<gap_profile, gap_goals, gap_analysis>>

engineVars == <<engine_profile, engine_goal, engine_courses, engine_result>>

scoreVars == <<score_questions, score_answers, score_result>>

lessonVars == <<lesson_enrolled, lessons_with_modules, completed_lesson_ids, next_lesson>>

vars == <<plannerVars, snapshotVars, recommendVars, adaptiveVars, skillVars, gapVars, engineVars,
         scoreVars,
         lessonVars>>

\* ---------------------------------------------------------------- idle subsystems
\* the planner's variables in the specifications of the other subsystems
PlannerIdle ==
    /\ all_courses = <<>>
    /\ current_skills = {}
    /\ target_skills = {}
    /\ study_hours_per_week = 0
    /\ inv = 1
    /\ pc = "idle"
    /\ path_courses = <<>>
    /\ learned_skills = {}
    /\ skill_gaps = {}
    /\ iteration = 0
    /\ results = <<>>

\* the snapshots' variables in the specifications of the other subsystems
\* before get_current_learning_path has been called
NoCurrentPath == [called |-> FALSE, user_id |-> "", raised |-> FALSE,
                  has_path |-> FALSE, snapshot_id |-> 0]

SnapshotIdle ==
    /\ snapshots = <<>>
    /\ requests = <<>>
    /\ current_path = NoCurrentPath

\* the recommendation variables in the specifications of the other subsystems
RecommendIdle ==
    /\ available_courses = <<>>
    /\ user_context = [current_skills |-> {}, learning_goals |-> <<>>]
    /\ scored_courses = <<>>
    /\ recommendations = <<>>
    /\ rec_limit = -1

\* the adaptive assessment's variables in the specifications of the other subsystems
AdaptiveIdle ==
    /\ all_questions = <<>>
    /\ previous_answers = <<>>
    /\ served = <<>>

NoLevel == -1

NoProfile == [present |-> FALSE, skill_levels |-> <<>>, knowledge_gaps |-> {}]

\* the skill assessor's variables in the specifications of the other subsystems
SkillIdle ==
    /\ skill_op = "idle"
    /\ attempts = <<>>
    /\ history_level = NoLevel
    /\ diag_questions = <<>>
    /\ profile = NoProfile
    /\ skill_levels = <<>>
    /\ knowledge_gaps = {}

\* before analyze_skill_gaps has returned
NoAnalysis == [called |-> FALSE, error |-> FALSE, target_skills |-> {},
               skill_gaps |-> <<>>, strengths |-> {}, recommendations |-> <<>>,
               overall_readiness |-> [percentage |-> 0, status |-> ""]]

\* the gap analyzer's variables in the specifications of the other subsystems
GapIdle ==
    /\ gap_profile = NoProfile
    /\ gap_goals = <<>>
    /\ gap_analysis = NoAnalysis

\* no LearnerProfile row
EngineNoProfile == [present |-> FALSE, skill_levels |-> <<>>, study_hours |-> 0]

\* no LearningGoal row
EngineNoGoal == [present |-> FALSE, target_skills |-> <<>>]

\* before generate_learning_path has returned
EngineNoResult == [called |-> FALSE, has_metadata |-> FALSE, learning_path |-> <<>>,
                   metadata |-> [total_courses |-> 0, total_hours |-> 0,
                                 estimated_weeks |-> 0, skills_covered |-> {},
                                 remaining_gaps |-> <<>>]]

\* the engine's variables in the specifications of the other subsystems
EngineIdle ==
    /\ engine_profile = EngineNoProfile
    /\ engine_goal = EngineNoGoal
    /\ engine_courses = <<>>
    /\ engine_result = EngineNoResult

\* before recommend_next_lesson has returned; lesson_id 0 is None
NoNextLesson == [called |-> FALSE, lesson_id |-> 0]

\* the next-lesson variables in the specifications of the other subsystems
LessonIdle ==
    /\ lesson_enrolled = FALSE
    /\ lessons_with_modules = <<>>
    /\ completed_lesson_ids = {}
    /\ next_lesson = NoNextLesson

\* before calculate_adaptive_score has returned
NoScoreResult == [called |-> FALSE, points_earned |-> 0, points_possible |-> 0,
                  percentage |-> 0]

\* the adaptive score's variables in the specifications of the other subsystems
ScoreIdle ==
    /\ score_questions = <<>>
    /\ score_answers = <<>>
    /\ score_result = NoScoreResult

\* ---------------------------------------------------------------- bounds
Skills == {"python", "sql"}
MaxCourses == 2
HourChoices == {0, 1}
StudyHourChoices == {0, 2}

\* ---------------------------------------------------------------- helpers
Max(a, b) == IF a >= b THEN a ELSE b
Min(a, b) == IF a <= b THEN a ELSE b

\* math.ceil(a / b) for a >= 0, b > 0
Ceil(a, b) == (a + b - 1) \div b

\* a sequence numbering that starts at 0
NextSequenceFromZero(path) == Len(path)

\* 'sequence_number': len(path_courses) + 1 and 'sequence': len(learning_path) + 1
NextSequence(path) == Len(path) + 1

Range(s) == {s[i] : i \in 1..Len(s)}

\* round(num / den) for num >= 0, den > 0, halves to the even neighbour
RoundDiv(num, den) ==
    LET q == num \div den
        r == num % den
    IN  IF 2 * r < den THEN q
        ELSE IF 2 * r > den THEN q + 1
        ELSE IF q % 2 = 0 THEN q ELSE q + 1

RECURSIVE SumHours(_)
SumHours(s) == IF s = <<>> THEN 0 ELSE Head(s) + SumHours(Tail(s))

Permutations1(n) == {p \in [1..n -> 1..n] : \A i, j \in 1..n : p[i] = p[j] => i = j}

\* ---------------------------------------------------------------- snapshots
\* POST /generate-learning-path (api/dashboard.py): each request runs in its own
\* database session (get_db); its SELECT sees the rows committed so far, and its
\* commit flushes the UPDATEs of the rows it loaded and the INSERT of the new row.
Users == {"u1", "u2"}
Goals == {"g1", "g2"}
MaxRequests == 3
Requests == 1..MaxRequests

\* a request that has not arrived yet
NoRequest == [pc |-> "idle", user_id |-> "", goal_id |-> "", old_paths |-> {},
              seen |-> 0, new_snapshot |-> 0]

\* a SELECT of old paths that leaves out the condition on learning_goal_id
ActivePathsAnyGoal(rows, user_id, goal_id) ==
    {i \in 1..Len(rows) : rows[i].user_id = user_id /\ rows[i].active}

\* ids (positions) of the rows the SELECT of lines 294-299 returns
ActivePaths(rows, user_id, goal_id) ==
    {i \in 1..Len(rows) : /\ rows[i].user_id = user_id
                          /\ rows[i].learning_goal_id = goal_id
                          /\ rows[i].active}

\* the rows after the commit of a request: path.active = False for the rows it
\* loaded, and the new row with active=True
CommitRows(rows, old_paths, user_id, goal_id) ==
    Append([i \in 1..Len(rows) |->
               IF i \in old_paths THEN [rows[i] EXCEPT !.active = FALSE] ELSE rows[i]],
           [user_id |-> user_id, learning_goal_id |-> goal_id, active |-> TRUE])

SnapshotInit ==
    /\ AdaptiveIdle
    /\ SkillIdle
    /\ GapIdle
    /\ EngineIdle
    /\ LessonIdle
    /\ ScoreIdle
    /\ PlannerIdle
    /\ RecommendIdle
    /\ snapshots = <<>>
    /\ requests = [r \in Requests |-> NoRequest]
    /\ current_path = NoCurrentPath

\* a request arrives, the goal is verified, the path is computed and the active
\* snapshots of the user and goal are loaded (lines 269-299)
LoadOldPaths(r, u, g) ==
    /\ requests[r].pc = "idle"
    /\ requests' = [requests EXCEPT ![r] =
                       [pc |-> "loaded", user_id |-> u, goal_id |-> g,
                        old_paths |-> ActivePaths(snapshots, u, g),
                        seen |-> Len(snapshots),
                        new_snapshot |-> 0]]
    /\ UNCHANGED <<snapshots, current_path, plannerVars, recommendVars, adaptiveVars, skillVars, gapVars, engineVars,
                   scoreVars, lessonVars>>

\* the loaded rows are deactivated, the new snapshot is added, and the session
\* commits (lines 301-321)
CommitSnapshot(r) ==
    /\ requests[r].pc = "loaded"
    /\ snapshots' = CommitRows(snapshots, requests[r].old_paths,
                               requests[r].user_id, requests[r].goal_id)
    /\ requests' = [requests EXCEPT ![r].pc = "done",
                                    ![r].new_snapshot = Len(snapshots) + 1]
    /\ UNCHANGED <<current_path, plannerVars, recommendVars, adaptiveVars, skillVars, gapVars, engineVars, scoreVars,
                   lessonVars>>

SnapshotNext ==
    \/ \E r \in Requests, u \in Users, g \in Goals : LoadOldPaths(r, u, g)
    \/ \E r \in Requests : CommitSnapshot(r)

SpecSnapshot == SnapshotInit /\ [][SnapshotNext]_vars

\* the rows of the query of get_current_learning_path without goal_id: the active
\* snapshots of the user (lines 225-229)
ActiveOfUser(rows, user_id) ==
    {i \in 1..Len(rows) : rows[i].user_id = user_id /\ rows[i].active}

\* result.scalar_one_or_none() and the dict built from it: None for no row, the row
\* for exactly one, MultipleResultsFound raised for more than one
CurrentPath(rows, user_id) ==
    LET found == ActiveOfUser(rows, user_id)
    IN  IF found = {}
        THEN [called |-> TRUE, user_id |-> user_id, raised |-> FALSE,
              has_path |-> FALSE, snapshot_id |-> 0]
        ELSE IF Cardinality(found) = 1
        THEN [called |-> TRUE, user_id |-> user_id, raised |-> FALSE,
              has_path |-> TRUE, snapshot_id |-> CHOOSE i \in found : TRUE]
        ELSE [called |-> TRUE, user_id |-> user_id, raised |-> TRUE,
              has_path |-> FALSE, snapshot_id |-> 0]

\* GET /learning-path without goal_id, by user u
GetCurrentLearningPath(u) ==
    /\ current_path' = CurrentPath(snapshots, u)
    /\ UNCHANGED <<snapshots, requests, plannerVars, recommendVars, adaptiveVars,
                   skillVars, gapVars, engineVars, scoreVars, lessonVars>>

\* requests that generate paths, and reads of the current path between them
CurrentPathNext ==
    \/ SnapshotNext
    \/ \E u \in Users : GetCurrentLearningPath(u)

SpecCurrentPath == SnapshotInit /\ [][CurrentPathNext]_vars

\* ---------------------------------------------------------------- recommendations
\* Scores are kept in sixtieths of a point, which is exact for the fractions
\* overlap/union, met/total and enrollments/100*10 of the sets modelled.
Points(n) == 60 * n

MaxGoals == 2
Roles == {"analyst"}
NoRole == "none"
\* a stored difficulty_level is a DifficultyLevel member, a str whose value is one of
\* "beginner", "intermediate", "advanced"; it compares and hashes as that value
DifficultyValues == {"beginner", "intermediate", "advanced"}
EnrollmentChoices == {0, 50, 150}
LimitChoices == {1, 2, 10}

\* difficulty_map.get(level, 2)
DifficultyOrd(level) ==
    CASE level = "BEGINNER" -> 1
      [] level = "INTERMEDIATE" -> 2
      [] level = "ADVANCED" -> 3
      [] level = "EXPERT" -> 4
      [] OTHER -> 2

\* 'preferred_difficulty': 'INTERMEDIATE'  # Default since not in profile
PreferredDifficulty == "INTERMEDIATE"

LearningGoals == [target_skills : SUBSET Skills, target_role : Roles \cup {NoRole}]

\* target_skills of the context: list(set(target_skills)) over the active goals
ContextTargetSkills(ctx) ==
    UNION {ctx.learning_goals[k].target_skills : k \in 1..Len(ctx.learning_goals)}

\* skill_match as the share of the target skills the course teaches
SkillMatchOverTargets(course, ctx) ==
    LET course_skills == course.skills_taught
        targets == ContextTargetSkills(ctx)
    IN  IF targets # {} /\ course_skills # {}
        THEN (Cardinality(course_skills \cap targets) * Points(40))
                 \div Cardinality(targets)
        ELSE 0

\* 1. Skill Match (40% weight)
SkillMatch(course, ctx) ==
    LET course_skills == course.skills_taught
        targets == ContextTargetSkills(ctx)
    IN  IF targets # {} /\ course_skills # {}
        THEN (Cardinality(course_skills \cap targets) * Points(40))
                 \div Cardinality(course_skills \cup targets)
        ELSE 0

\* 2. Difficulty Match (20% weight)
DifficultyMatch(course) ==
    LET course_level == DifficultyOrd(course.difficulty_level)
        preferred_level == DifficultyOrd(PreferredDifficulty)
        diff == IF course_level >= preferred_level
                THEN course_level - preferred_level
                ELSE preferred_level - course_level
    IN  IF diff = 0 THEN Points(20)
        ELSE IF diff = 1 /\ course_level > preferred_level THEN Points(15)
        ELSE IF diff = 1 THEN Points(10)
        ELSE Max(0, Points(20) - diff * Points(5))

\* what one goal adds to goal_alignment, in whole points
GoalPoints(course, goal) ==
    (IF goal.target_skills \cap course.skills_taught # {} THEN 15 ELSE 0)
    + (IF goal.target_role # NoRole /\ goal.target_role \in course.mentions
       THEN 10 ELSE 0)

RECURSIVE GoalPointsSum(_, _)
GoalPointsSum(course, goals) ==
    IF goals = <<>> THEN 0
    ELSE GoalPoints(course, Head(goals)) + GoalPointsSum(course, Tail(goals))

\* goal_alignment without min(scores['goal_alignment'], 25)
GoalAlignmentNoCap(course, ctx) ==
    Points(GoalPointsSum(course, ctx.learning_goals))

\* 3. Learning Goal Alignment (25% weight)
GoalAlignment(course, ctx) ==
    Min(Points(GoalPointsSum(course, ctx.learning_goals)), Points(25))

\* 4. Popularity (10% weight): min((enrollments / 100) * 10, 10)
Popularity(course) ==
    Min((course.total_enrollments * Points(10)) \div 100, Points(10))

\* 5. Prerequisite Readiness (5% weight)
PrerequisiteReady(course, ctx) ==
    IF course.prerequisites = {} THEN Points(5)
    ELSE (Cardinality(course.prerequisites \cap ctx.current_skills) * Points(5))
             \div Cardinality(course.prerequisites)

\* sum(d.values()) of a dict
RECURSIVE SumValues(_, _)
SumValues(d, keys) ==
    IF keys = {} THEN 0
    ELSE LET k == CHOOSE x \in keys : TRUE
         IN  d[k] + SumValues(d, keys \ {k})

\* _calculate_recommendation_score: the five scores, then scores['total']
CalculateRecommendationScore(course, ctx) ==
    LET scores == [skill_match |-> SkillMatch(course, ctx),
                   difficulty_match |-> DifficultyMatch(course),
                   goal_alignment |-> GoalAlignment(course, ctx),
                   popularity |-> Popularity(course),
                   prerequisite_ready |-> PrerequisiteReady(course, ctx)]
    IN  [k \in DOMAIN scores \cup {"total"} |->
            IF k = "total" THEN SumValues(scores, DOMAIN scores) ELSE scores[k]]

\* list.sort(key=total, reverse=True): stable, so equal totals keep their order.
\* InsertByTotal puts x behind every entry whose total is at least x's.
RECURSIVE InsertByTotal(_, _)
InsertByTotal(sorted, x) ==
    IF sorted = <<>> THEN <<x>>
    ELSE IF Head(sorted).score["total"] >= x.score["total"]
         THEN <<Head(sorted)>> \o InsertByTotal(Tail(sorted), x)
         ELSE <<x>> \o sorted

RECURSIVE SortByTotal(_)
SortByTotal(list) ==
    IF list = <<>> THEN <<>>
    ELSE InsertByTotal(SortByTotal(SubSeq(list, 1, Len(list) - 1)), list[Len(list)])

\* round(x, 2) of a score, in hundredths of a point
Round2(x) == RoundDiv(x * 100, Points(1))

\* scored_courses[:limit] as returned
TopRecommendations(sorted, limit) ==
    [k \in 1..Min(limit, Len(sorted)) |->
        [course_id |-> sorted[k].course.id,
         recommendation_score |-> Round2(sorted[k].score["total"]),
         score_breakdown |->
             [f \in {"skill_match", "difficulty_match", "goal_alignment",
                     "popularity", "prerequisite_ready"} |->
                 Round2(sorted[k].score[f])]]]

RichCourses ==
    [id : {1},
     skills_taught : SUBSET Skills,
     prerequisites : {p \in SUBSET Skills : Cardinality(p) <= 1},
     difficulty_level : DifficultyValues,
     total_enrollments : EnrollmentChoices,
     mentions : SUBSET Roles]

\* the courses of the ranking runs differ in what they teach and how popular they are
PlainCourse(id, taught, enrollments) ==
    [id |-> id, skills_taught |-> taught, prerequisites |-> {},
     difficulty_level |-> "intermediate", total_enrollments |-> enrollments,
     mentions |-> {}]

IsContext(ctx, maxGoals) ==
    \E cur \in SUBSET Skills : \E n \in 0..maxGoals : \E goals \in [1..n -> LearningGoals] :
        ctx = [current_skills |-> cur, learning_goals |-> goals]

\* one course of any kind, any context
ScorerInit ==
    /\ AdaptiveIdle
    /\ SkillIdle
    /\ GapIdle
    /\ EngineIdle
    /\ LessonIdle
    /\ ScoreIdle
    /\ PlannerIdle
    /\ SnapshotIdle
    /\ \E c \in RichCourses : available_courses = <<c>>
    /\ IsContext(user_context, MaxGoals)
    /\ scored_courses = <<>>
    /\ recommendations = <<>>
    /\ rec_limit = -1

\* up to max_n plain courses with distinct ids in any order, at most one goal
RankingInitUpTo(max_n) ==
    /\ AdaptiveIdle
    /\ SkillIdle
    /\ GapIdle
    /\ EngineIdle
    /\ LessonIdle
    /\ ScoreIdle
    /\ PlannerIdle
    /\ SnapshotIdle
    /\ \E n \in 0..max_n : \E p \in Permutations1(n) :
         \E t \in [1..n -> SUBSET Skills] : \E e \in [1..n -> EnrollmentChoices] :
            available_courses = [i \in 1..n |-> PlainCourse(p[i], t[i], e[i])]
    /\ IsContext(user_context, 1)
    /\ scored_courses = <<>>
    /\ recommendations = <<>>
    /\ rec_limit = -1

\* the ranking called on up to MaxCourses courses
RankingInit == RankingInitUpTo(MaxCourses)

\* get_personalized_recommendations(user_id, limit)
GetPersonalizedRecommendations(limit) ==
    /\ rec_limit = -1
    /\ LET scored == [k \in 1..Len(available_courses) |->
                         [course |-> available_courses[k],
                          score |-> CalculateRecommendationScore(available_courses[k],
                                                                 user_context)]]
       IN  /\ scored_courses' = SortByTotal(scored)
           /\ recommendations' = TopRecommendations(SortByTotal(scored), limit)
    /\ rec_limit' = limit
    /\ UNCHANGED <<available_courses, user_context, plannerVars, snapshotVars, adaptiveVars,
                   skillVars, gapVars, engineVars, scoreVars, lessonVars>>

RecommendNext == \E limit \in LimitChoices : GetPersonalizedRecommendations(limit)

SpecScorer == ScorerInit /\ [][RecommendNext]_vars

SpecRanking == RankingInit /\ [][RecommendNext]_vars

\* ---------------------------------------------------------------- adaptive assessment
QuestionIds == {1, 2, 3}
DifficultyTiers == {"EASY", "MEDIUM", "HARD"}
MaxAnswers == 5

Answers == [question_id : QuestionIds, is_correct : BOOLEAN]

\* return None
NoQuestion == [question_id |-> 0, difficulty_level |-> "none", question_number |-> 0,
               total_questions |-> 0]

\* the dict returned for a question
QuestionDict(q, answers, questions) ==
    [question_id |-> q.id, difficulty_level |-> q.difficulty_level,
     question_number |-> Len(answers) + 1, total_questions |-> Len(questions)]

\* sum(1 for ans in previous_answers if ans.get('is_correct', False))
CorrectCount(answers) == Cardinality({i \in 1..Len(answers) : answers[i].is_correct})

\* answered_ids that holds only the questions answered correctly
AnsweredIdsCorrectOnly(answers) ==
    {answers[i].question_id : i \in {j \in 1..Len(answers) : answers[j].is_correct}}

\* answered_ids = [ans['question_id'] for ans in previous_answers]
AnsweredIds(answers) == {answers[i].question_id : i \in 1..Len(answers)}

\* a threshold of accuracy > 0.8 in place of accuracy >= 0.8
TargetDifficultyStrict(answers) ==
    LET correct_count == CorrectCount(answers)
        total_answered == Len(answers)
    IN  IF 5 * correct_count > 4 * total_answered THEN "HARD"
        ELSE IF 2 * correct_count >= total_answered THEN "MEDIUM"
        ELSE "EASY"

\* target_difficulty for a non-empty history: accuracy = correct_count / total_answered,
\* accuracy >= 0.8 -> HARD, accuracy >= 0.5 -> MEDIUM, else EASY
TargetDifficulty(answers) ==
    LET correct_count == CorrectCount(answers)
        total_answered == Len(answers)
    IN  IF 5 * correct_count >= 4 * total_answered THEN "HARD"
        ELSE IF 2 * correct_count >= total_answered THEN "MEDIUM"
        ELSE "EASY"

\* the fallback taking the last unanswered question instead of unanswered[0]
FallbackLast(unanswered) == CHOOSE i \in unanswered : \A j \in unanswered : j <= i

\* unanswered[0]: the first unanswered question in catalog order
Fallback(unanswered) == CHOOSE i \in unanswered : \A j \in unanswered : i <= j

\* the positions get_next_question can return for a non-empty catalog ({} for None);
\* random.choice may return any element of its list
NextPositions(questions, answers) ==
    IF answers = <<>>
    THEN LET medium_questions ==
                 {i \in 1..Len(questions) : questions[i].difficulty_level = "MEDIUM"}
         IN  IF medium_questions # {} THEN medium_questions ELSE {1}
    ELSE LET answered_ids == AnsweredIds(answers)
             unanswered == {i \in 1..Len(questions) : questions[i].id \notin answered_ids}
             target_difficulty == TargetDifficulty(answers)
             matching_difficulty ==
                 {i \in unanswered : questions[i].difficulty_level = target_difficulty}
         IN  IF unanswered = {} THEN {}
             ELSE IF matching_difficulty # {} THEN matching_difficulty
             ELSE {Fallback(unanswered)}

\* the values get_next_question can return
NextQuestions(questions, answers) ==
    IF questions = <<>> THEN {NoQuestion}
    ELSE IF NextPositions(questions, answers) = {} THEN {NoQuestion}
    ELSE {QuestionDict(questions[i], answers, questions) :
             i \in NextPositions(questions, answers)}

\* a catalog of n questions: the question at position i has id i
IsQuestionCatalog(questions, n) ==
    \E d \in [1..n -> DifficultyTiers] :
        questions = [i \in 1..n |-> [id |-> i, difficulty_level |-> d[i]]]

AdaptiveInitUpTo(max_n) ==
    /\ SkillIdle
    /\ GapIdle
    /\ EngineIdle
    /\ LessonIdle
    /\ ScoreIdle
    /\ PlannerIdle
    /\ SnapshotIdle
    /\ RecommendIdle
    /\ \E n \in 0..Cardinality(QuestionIds) : IsQuestionCatalog(all_questions, n)
    /\ \E n \in 0..max_n : previous_answers \in [1..n -> Answers]
    /\ served = <<>>

\* the selector called with up to MaxAnswers answers
AdaptiveInit == AdaptiveInitUpTo(MaxAnswers)

\* get_next_question(user_id, assessment_id, previous_answers), the k-th call
GetNextQuestion(k) ==
    /\ Len(served) = k - 1
    /\ \E question \in NextQuestions(all_questions, previous_answers) :
          served' = Append(served, question)
    /\ UNCHANGED <<all_questions, previous_answers, plannerVars, snapshotVars,
                   recommendVars, skillVars, gapVars, engineVars, scoreVars,
                   lessonVars>>

AdaptiveNext == GetNextQuestion(1)

SpecAdaptive == AdaptiveInit /\ [][AdaptiveNext]_vars

AdaptiveTwiceNext == GetNextQuestion(1) \/ GetNextQuestion(2)

\* two calls with the same history and catalog
SpecAdaptiveTwice == AdaptiveInit /\ [][AdaptiveTwiceNext]_vars



\* a session: the caller starts with an empty history, asks for the next question,
\* answers it rightly or wrongly, appends the answer to the history and asks again,
\* until the endpoint reports completion
SessionInit == AdaptiveInitUpTo(0)

\* the endpoint has not yet answered {"completed": True}
SessionOpen == IF served = <<>> THEN TRUE ELSE served[Len(served)] # NoQuestion

\* get_adaptive_next_question once, and the caller's answer to what it returned
ServeAndAnswer ==
    /\ SessionOpen
    /\ \E question \in NextQuestions(all_questions, previous_answers) :
          /\ served' = Append(served, question)
          /\ IF question = NoQuestion
             THEN previous_answers' = previous_answers
             ELSE \E is_correct \in BOOLEAN :
                      previous_answers' =
                          Append(previous_answers,
                                 [question_id |-> question.question_id,
                                  is_correct |-> is_correct])
    /\ UNCHANGED <<all_questions, plannerVars, snapshotVars, recommendVars, skillVars,
                   gapVars, engineVars, scoreVars, lessonVars>>

SessionNext == ServeAndAnswer

SpecSession == SessionInit /\ [][SessionNext]_vars


\* ---------------------------------------------------------------- next lesson
\* RecommendationEngine.recommend_next_lesson (recommendation_engine.py). The lesson at
\* position i of the ordered query has id i; OtherLesson is a lesson of another course.
\* Lesson.prerequisites is a JSONB list that nothing validates: it may name the lesson
\* itself, a later lesson or a lesson of another course.
MaxLessons == 2
OtherLesson == 9
MaxLessonPrerequisites == 2

LessonIdsUpTo(n) == (1..n) \cup {OtherLesson}

IsLessonList(rows, n) ==
    \E p \in [1..n -> {s \in SUBSET LessonIdsUpTo(n) :
                           Cardinality(s) <= MaxLessonPrerequisites}] :
        rows = [i \in 1..n |-> [id |-> i, prerequisites |-> p[i]]]

\* prereqs_met = all(UUID(prereq) in completed_lesson_ids for prereq in prereqs)
PrereqsMet(lesson, completed) == lesson.prerequisites \subseteq completed

\* the positions at which the for-loop would return
ReturnPositions(rows, completed) ==
    {i \in 1..Len(rows) : rows[i].id \notin completed /\ PrereqsMet(rows[i], completed)}

\* None without an enrollment; the first lesson the loop returns at; None after the loop
NextLesson(enrolled, rows, completed) ==
    IF ~enrolled THEN [called |-> TRUE, lesson_id |-> 0]
    ELSE IF ReturnPositions(rows, completed) = {} THEN [called |-> TRUE, lesson_id |-> 0]
    ELSE [called |-> TRUE,
          lesson_id |-> rows[CHOOSE i \in ReturnPositions(rows, completed) :
                                \A j \in ReturnPositions(rows, completed) : i <= j].id]

LessonInit ==
    /\ PlannerIdle
    /\ SnapshotIdle
    /\ RecommendIdle
    /\ AdaptiveIdle
    /\ SkillIdle
    /\ GapIdle
    /\ EngineIdle
    /\ ScoreIdle
    /\ lesson_enrolled \in BOOLEAN
    /\ \E n \in 0..MaxLessons :
          /\ IsLessonList(lessons_with_modules, n)
          /\ completed_lesson_ids \in SUBSET LessonIdsUpTo(n)
    /\ next_lesson = NoNextLesson

\* recommend_next_lesson(user_id, enrollment_id)
RecommendNextLesson ==
    /\ ~next_lesson.called
    /\ next_lesson' = NextLesson(lesson_enrolled, lessons_with_modules,
                                 completed_lesson_ids)
    /\ UNCHANGED <<lesson_enrolled, lessons_with_modules, completed_lesson_ids,
                   plannerVars, snapshotVars, recommendVars, adaptiveVars, skillVars,
                   gapVars, engineVars, scoreVars>>

LessonNext == RecommendNextLesson

SpecLesson == LessonInit /\ [][LessonNext]_vars

\* ---------------------------------------------------------------- adaptive score
\* AdaptiveAssessmentEngine.calculate_adaptive_score. Points are kept doubled, so that
\* the multipliers 1.0, 1.5 and 2.0 are the integers 2, 3 and 4; the percentage is in
\* hundredths.
MaxScoreQuestions == 2
MaxScoreAnswers == 2

\* question.points: 0 stands for None
PointChoices == {0, 1}

\* difficulty_level of a question: one of the keys of difficulty_multipliers, or a value
\* that is none of them, such as the integer the column holds
ScoreDifficulties == DifficultyTiers \cup {"5"}

\* difficulty_multipliers.get(question.difficulty_level, 1.0), doubled
Multiplier2(level) ==
    CASE level = "EASY" -> 2
      [] level = "MEDIUM" -> 3
      [] level = "HARD" -> 4
      [] OTHER -> 2

\* base_points = question.points or 10
BasePoints(question) == IF question.points = 0 THEN 10 ELSE question.points

\* the question an answer names: questions[question_id], or none
QuestionOf(questions, answer) ==
    {i \in 1..Len(questions) : questions[i].id = answer.question_id}

\* weighted_points of one answer, doubled; 0 when its question is not in the dict
WeightedPoints2(questions, answer) ==
    IF QuestionOf(questions, answer) = {} THEN 0
    ELSE LET question == questions[CHOOSE i \in QuestionOf(questions, answer) : TRUE]
         IN  BasePoints(question) * Multiplier2(question.difficulty_level)

\* max_possible_points after the loop, doubled
RECURSIVE MaxPossiblePoints2(_, _)
MaxPossiblePoints2(questions, answers) ==
    IF answers = <<>> THEN 0
    ELSE WeightedPoints2(questions, Head(answers))
             + MaxPossiblePoints2(questions, Tail(answers))

\* total_points_earned after the loop, doubled
RECURSIVE TotalPointsEarned2(_, _)
TotalPointsEarned2(questions, answers) ==
    IF answers = <<>> THEN 0
    ELSE (IF Head(answers).is_correct THEN WeightedPoints2(questions, Head(answers))
          ELSE 0)
             + TotalPointsEarned2(questions, Tail(answers))

\* the dict returned: int() of both sums, round(percentage, 2) of the unrounded ones
AdaptiveScore(questions, answers) ==
    LET earned2 == TotalPointsEarned2(questions, answers)
        possible2 == MaxPossiblePoints2(questions, answers)
    IN  [called |-> TRUE,
         points_earned |-> earned2 \div 2,
         points_possible |-> possible2 \div 2,
         percentage |-> IF possible2 > 0 THEN RoundDiv(earned2 * 10000, possible2)
                        ELSE 0]

IsScoreCatalog(questions, n) ==
    \E pts \in [1..n -> PointChoices] : \E d \in [1..n -> ScoreDifficulties] :
        questions = [i \in 1..n |-> [id |-> i, points |-> pts[i], difficulty_level |-> d[i]]]

\* the answers name questions of the assessment or, with id 0, a question outside it
ScoreAnswers == [question_id : 0..MaxScoreQuestions, is_correct : BOOLEAN]

ScoreInit ==
    /\ PlannerIdle
    /\ SnapshotIdle
    /\ RecommendIdle
    /\ AdaptiveIdle
    /\ SkillIdle
    /\ GapIdle
    /\ EngineIdle
    /\ LessonIdle
    /\ \E n \in 0..MaxScoreQuestions : IsScoreCatalog(score_questions, n)
    /\ \E n \in 0..MaxScoreAnswers : score_answers \in [1..n -> ScoreAnswers]
    /\ score_result = NoScoreResult

\* calculate_adaptive_score(answers, assessment_id)
CalculateAdaptiveScore ==
    /\ ~score_result.called
    /\ score_result' = AdaptiveScore(score_questions, score_answers)
    /\ UNCHANGED <<score_questions, score_answers, plannerVars, snapshotVars,
                   recommendVars, adaptiveVars, skillVars, gapVars, engineVars,
                   lessonVars>>

ScoreNext == CalculateAdaptiveScore

SpecScore == ScoreInit /\ [][ScoreNext]_vars

\* ---------------------------------------------------------------- skill levels
\* Levels are held in tenths of a point (the code rounds them to one decimal),
\* attempt scores in hundredths (the grader rounds them to two decimals).
MaxAttempts == 3
MaxDiagQuestions == 5
ScoreChoices == {0, 33, 100}
NoScore == -1
DiagTagChoices == {{"python"}, {"python", "sql"}}
DiagDifficultyChoices == {1, 10}
ExistingLevelChoices == {70}

\* .limit(10) on the attempts query
HistoryLimit == 10

Take(seq, n) == SubSeq(seq, 1, Min(n, Len(seq)))

\* skill_scores: the scores of the attempts that hold one for the skill, in order
RECURSIVE SkillScores(_)
SkillScores(atts) ==
    IF atts = <<>> THEN <<>>
    ELSE IF Head(atts) = NoScore THEN SkillScores(Tail(atts))
    ELSE <<Head(atts)>> \o SkillScores(Tail(atts))

\* weight = 1.0 / (i + 1) for the i-th score counted from 0, as a multiple of 1/2520
\* (2520 is divisible by every position up to HistoryLimit)
Weight(position) == 2520 \div position

RECURSIVE WeightedSum(_, _)
WeightedSum(scores, position) ==
    IF position > Len(scores) THEN 0
    ELSE scores[position] * Weight(position) + WeightedSum(scores, position + 1)

\* a sum of weights that counts every score with weight 1.0: the first weight only
WeightSumFirstOnly(scores, position) == Weight(1)

RECURSIVE WeightSum(_, _)
WeightSum(scores, position) ==
    IF position > Len(scores) THEN 0
    ELSE Weight(position) + WeightSum(scores, position + 1)

\* a level of 0 in place of None for a skill without a score
HistoryLevelZeroDefault(atts) ==
    LET skill_scores == SkillScores(Take(atts, HistoryLimit))
    IN  IF skill_scores = <<>> THEN 0
        ELSE RoundDiv(WeightedSum(skill_scores, 1), WeightSum(skill_scores, 1))

\* calculate_skill_from_history: round(weighted_sum / weight_sum * 10, 1), in tenths
HistoryLevel(atts) ==
    LET recent == Take(atts, HistoryLimit)
        skill_scores == SkillScores(recent)
    IN  IF recent = <<>> THEN NoLevel
        ELSE IF skill_scores = <<>> THEN NoLevel
        ELSE RoundDiv(WeightedSum(skill_scores, 1), WeightSum(skill_scores, 1))

\* the skills that get an entry in skill_scores
TaggedSkills(qs) == UNION {qs[i].skill_tags : i \in 1..Len(qs)}

\* stats of one skill: total, correct, difficulty_sum
RECURSIVE SkillStats(_, _)
SkillStats(qs, skill) ==
    IF qs = <<>> THEN [total |-> 0, correct |-> 0, difficulty_sum |-> 0]
    ELSE LET rest == SkillStats(Tail(qs), skill)
             q == Head(qs)
         IN  IF skill \notin q.skill_tags THEN rest
             ELSE [total |-> rest.total + 1,
                   correct |-> rest.correct + (IF q.is_correct THEN 1 ELSE 0),
                   difficulty_sum |-> rest.difficulty_sum + q.difficulty_level]

\* skill_level = min(10.0, round(accuracy * avg_difficulty * confidence_factor, 1))
\* with confidence_factor = min(1.0, total / 5), in tenths
DiagnosticLevel(stats) ==
    Min(100, RoundDiv(2 * stats.correct * stats.difficulty_sum * Min(5, stats.total),
                      stats.total * stats.total))

\* skill_level < 5.0 or (avg_difficulty <= 3 and accuracy < 0.6)
IsKnowledgeGap(stats) ==
    \/ DiagnosticLevel(stats) < 50
    \/ /\ stats.difficulty_sum <= 3 * stats.total
       /\ 5 * stats.correct < 3 * stats.total

DiagnosticLevels(qs) ==
    [skill \in TaggedSkills(qs) |-> DiagnosticLevel(SkillStats(qs, skill))]

\* knowledge_gaps, as the set of the list's elements
DiagnosticGaps(qs) ==
    {skill \in TaggedSkills(qs) : IsKnowledgeGap(SkillStats(qs, skill))}

\* _update_learner_profile. Without a row a new one is added with the new levels.
\* With a row, existing_skills = profile.skill_levels or {}:
\*  - an empty skill_levels gives a fresh dict, which receives max(0, level) for each
\*    new level and is assigned and written;
\*  - a non-empty skill_levels is the dict the row already holds (a plain JSONB column,
\*    models/learner_profile.py:28, no mutation tracking): it is changed in place and
\*    the same object is assigned back, so at the commit the attribute equals its
\*    recorded old value, no UPDATE of skill_levels is sent, and refresh() reloads
\*    the levels that were stored before.
\* knowledge_gaps is a new list and is written in both cases.
UpdateLearnerProfile(old, levels, gaps) ==
    IF ~old.present
    THEN [present |-> TRUE, skill_levels |-> levels, knowledge_gaps |-> gaps]
    ELSE IF DOMAIN old.skill_levels = {}
         THEN [present |-> TRUE,
               skill_levels |-> [skill \in DOMAIN levels |-> Max(0, levels[skill])],
               knowledge_gaps |-> gaps]
         ELSE [present |-> TRUE, skill_levels |-> old.skill_levels,
               knowledge_gaps |-> gaps]

DiagQuestions ==
    [skill_tags : DiagTagChoices, difficulty_level : DiagDifficultyChoices,
     is_correct : BOOLEAN]

IsProfile(p) ==
    \/ p = NoProfile
    \/ \E D \in SUBSET Skills : \E f \in [D -> ExistingLevelChoices] :
          p = [present |-> TRUE, skill_levels |-> f, knowledge_gaps |-> {}]

\* attempts older than a run of HistoryLimit or so attempts of one kind
MaxOlderAttempts == 2

\* a history longer than the query's limit: at most one attempt, then a run of attempts
\* that all hold the same score for the skill or all hold none, then older attempts
IsLongHistory(atts) ==
    \E h \in 0..1 : \E head \in [1..h -> ScoreChoices \cup {NoScore}] :
    \E c \in ScoreChoices \cup {NoScore} : \E m \in (HistoryLimit - 1)..HistoryLimit :
    \E o \in 1..MaxOlderAttempts : \E older \in [1..o -> ScoreChoices \cup {NoScore}] :
        atts = head \o [i \in 1..m |-> c] \o older

HistoryInit ==
    /\ skill_op = "history"
    /\ \/ \E n \in 0..MaxAttempts : attempts \in [1..n -> ScoreChoices \cup {NoScore}]
       \/ IsLongHistory(attempts)
    /\ diag_questions = <<>>
    /\ profile = NoProfile

DiagnosticInit ==
    /\ skill_op = "diagnostic"
    /\ attempts = <<>>
    /\ \E n \in 0..MaxDiagQuestions : diag_questions \in [1..n -> DiagQuestions]
    /\ IsProfile(profile)

SkillInit ==
    /\ PlannerIdle
    /\ SnapshotIdle
    /\ RecommendIdle
    /\ AdaptiveIdle
    /\ GapIdle
    /\ EngineIdle
    /\ LessonIdle
    /\ ScoreIdle
    /\ history_level = NoLevel
    /\ skill_levels = <<>>
    /\ knowledge_gaps = {}
    /\ (HistoryInit \/ DiagnosticInit)

\* an estimator that also writes the level it computed into the profile
CalculateSkillFromHistoryStoring ==
    /\ skill_op = "history"
    /\ skill_op' = "history_done"
    /\ history_level' = HistoryLevel(attempts)
    /\ profile' = [present |-> TRUE,
                   skill_levels |-> [skill \in {"python"} |-> HistoryLevel(attempts)],
                   knowledge_gaps |-> {}]
    /\ UNCHANGED <<attempts, diag_questions, skill_levels, knowledge_gaps,
                   plannerVars, snapshotVars, recommendVars, adaptiveVars, gapVars,
                   engineVars, scoreVars, lessonVars>>

\* calculate_skill_from_history(user_id, skill)
CalculateSkillFromHistory ==
    /\ skill_op = "history"
    /\ skill_op' = "history_done"
    /\ history_level' = HistoryLevel(attempts)
    /\ UNCHANGED <<attempts, diag_questions, profile, skill_levels, knowledge_gaps,
                   plannerVars, snapshotVars, recommendVars, adaptiveVars, gapVars, engineVars,
                   scoreVars, lessonVars>>

\* process_diagnostic_assessment(user_id, assessment_id, answers)
ProcessDiagnosticAssessment ==
    /\ skill_op = "diagnostic"
    /\ skill_op' = "diagnostic_done"
    /\ skill_levels' = DiagnosticLevels(diag_questions)
    /\ knowledge_gaps' = DiagnosticGaps(diag_questions)
    /\ profile' = UpdateLearnerProfile(profile, DiagnosticLevels(diag_questions),
                                       DiagnosticGaps(diag_questions))
    /\ UNCHANGED <<attempts, diag_questions, history_level,
                   plannerVars, snapshotVars, recommendVars, adaptiveVars, gapVars, engineVars,
                   scoreVars, lessonVars>>

SkillNext == CalculateSkillFromHistory \/ ProcessDiagnosticAssessment

SpecSkill == SkillInit /\ [][SkillNext]_vars

\* the diagnostics of a run of several, each with up to this many questions
MaxSeqDiagQuestions == 2

\* a learner who has a profile takes a first diagnostic
DiagnosticSeqInit ==
    /\ PlannerIdle
    /\ SnapshotIdle
    /\ RecommendIdle
    /\ AdaptiveIdle
    /\ GapIdle
    /\ EngineIdle
    /\ ScoreIdle
    /\ LessonIdle
    /\ history_level = NoLevel
    /\ skill_levels = <<>>
    /\ knowledge_gaps = {}
    /\ skill_op = "diagnostic"
    /\ attempts = <<>>
    /\ \E n \in 0..MaxSeqDiagQuestions : diag_questions \in [1..n -> DiagQuestions]
    /\ IsProfile(profile)
    /\ profile.present

\* the learner takes another diagnostic
NextDiagnostic ==
    /\ skill_op = "diagnostic_done"
    /\ skill_op' = "diagnostic"
    /\ \E n \in 0..MaxSeqDiagQuestions : diag_questions' \in [1..n -> DiagQuestions]
    /\ UNCHANGED <<attempts, history_level, profile, skill_levels, knowledge_gaps,
                   plannerVars, snapshotVars, recommendVars, adaptiveVars, gapVars,
                   engineVars, scoreVars, lessonVars>>

DiagnosticSeqNext == ProcessDiagnosticAssessment \/ NextDiagnostic

SpecDiagnosticSeq == DiagnosticSeqInit /\ [][DiagnosticSeqNext]_vars

\* ---------------------------------------------------------------- skill gap analysis
\* Skill levels are held in tenths of a point, as in the profile.
GapSkills == {"docker", "python", "sql"}
MaxGapGoals == 2
GapLevelChoices == {0, 29, 30, 69, 70}

\* position of a skill name in lexicographic order
NameRank(skill) ==
    CASE skill = "docker" -> 1
      [] skill = "python" -> 2
      [] skill = "sql" -> 3

\* {'high': 0, 'medium': 1, 'low': 2}[priority]
PriorityRank(priority) ==
    CASE priority = "high" -> 0
      [] priority = "medium" -> 1
      [] priority = "low" -> 2

\* current_skills.get(skill, 0)
LevelOf(cur_skills, skill) ==
    IF skill \in DOMAIN cur_skills THEN cur_skills[skill] ELSE 0

\* the orders in which iterating over a set can yield its elements
IterationOrders(S) ==
    {f \in [1..Cardinality(S) -> S] : \A x \in S : \E i \in DOMAIN f : f[i] = x}

\* all_target_skills: the union of the goals' target_skills
AllTargetSkills(goals) == UNION {goals[k] : k \in 1..Len(goals)}

\* the gap dict of one target skill
Gap(cur_skills, target_skill) ==
    LET current_level == LevelOf(cur_skills, target_skill)
    IN  [skill |-> target_skill,
         current_level |-> current_level,
         gap_size |-> IF current_level < 30 THEN "large"
                      ELSE IF current_level < 70 THEN "medium" ELSE "small",
         priority |-> IF current_level < 30 THEN "high"
                      ELSE IF current_level < 70 THEN "medium" ELSE "low"]

\* sorted(skill_gaps, key=rank of priority): stable, equal ranks keep their order
RECURSIVE InsertByPriority(_, _)
InsertByPriority(sorted, gap) ==
    IF sorted = <<>> THEN <<gap>>
    ELSE IF PriorityRank(Head(sorted).priority) <= PriorityRank(gap.priority)
         THEN <<Head(sorted)>> \o InsertByPriority(Tail(sorted), gap)
         ELSE <<gap>> \o sorted

RECURSIVE SortByPriority(_)
SortByPriority(list) ==
    IF list = <<>> THEN <<>>
    ELSE InsertByPriority(SortByPriority(SubSeq(list, 1, Len(list) - 1)),
                          list[Len(list)])

\* acquired_skills counted with level > 7 in place of level >= 7
AcquiredSkillsStrict(cur_skills, targets) ==
    Cardinality({skill \in targets : LevelOf(cur_skills, skill) > 70})

\* sum(1 for skill in target_skills if current_skills.get(skill, 0) >= 7)
AcquiredSkills(cur_skills, targets) ==
    Cardinality({skill \in targets : LevelOf(cur_skills, skill) >= 70})

\* _calculate_readiness; int() truncates the quotient
CalculateReadiness(cur_skills, targets) ==
    IF targets = {} THEN [percentage |-> 100, status |-> "ready"]
    ELSE LET total_target_skills == Cardinality(targets)
             acquired_skills == AcquiredSkills(cur_skills, targets)
             percentage == (acquired_skills * 100) \div total_target_skills
         IN  [percentage |-> percentage,
              status |-> IF percentage >= 80 THEN "ready"
                         ELSE IF percentage >= 50 THEN "progressing"
                         ELSE "building_foundation"]

\* the types of the recommendations appended
GapRecommendations(gaps, strengths) ==
    (IF \E i \in 1..Len(gaps) : gaps[i].priority = "high"
     THEN <<"focus_area">> ELSE <<>>)
    \o (IF strengths # {} THEN <<"leverage_strength">> ELSE <<>>)

\* the dict analyze_skill_gaps returns when the loop over all_target_skills
\* visits the skills in the given order
Analysis(cur_skills, order) ==
    LET all_target_skills == Range(order)
        gaps_list == [i \in 1..Len(order) |-> Gap(cur_skills, order[i])]
        strengths == {skill \in DOMAIN cur_skills : cur_skills[skill] >= 70}
    IN  [called |-> TRUE, error |-> FALSE,
         target_skills |-> all_target_skills,
         skill_gaps |-> SortByPriority(gaps_list),
         strengths |-> strengths,
         recommendations |-> GapRecommendations(gaps_list, strengths),
         overall_readiness |-> CalculateReadiness(cur_skills, all_target_skills)]

\* {"error": "User not found"}
UserNotFound == [NoAnalysis EXCEPT !.called = TRUE, !.error = TRUE]

IsGapProfile(p) ==
    \/ p = NoProfile
    \/ \E D \in SUBSET GapSkills : \E f \in [D -> GapLevelChoices] :
          p = [present |-> TRUE, skill_levels |-> f, knowledge_gaps |-> {}]

GapInit ==
    /\ PlannerIdle
    /\ SnapshotIdle
    /\ RecommendIdle
    /\ AdaptiveIdle
    /\ SkillIdle
    /\ EngineIdle
    /\ LessonIdle
    /\ ScoreIdle
    /\ IsGapProfile(gap_profile)
    /\ \E n \in 0..MaxGapGoals : gap_goals \in [1..n -> SUBSET GapSkills]
    /\ gap_analysis = NoAnalysis

\* analyze_skill_gaps(user_id)
AnalyzeSkillGaps ==
    /\ ~gap_analysis.called
    /\ IF ~gap_profile.present
       THEN gap_analysis' = UserNotFound
       ELSE \E order \in IterationOrders(AllTargetSkills(gap_goals)) :
               gap_analysis' = Analysis(gap_profile.skill_levels, order)
    /\ UNCHANGED <<gap_profile, gap_goals, plannerVars, snapshotVars, recommendVars,
                   adaptiveVars, skillVars, engineVars, scoreVars, lessonVars>>

GapNext == AnalyzeSkillGaps

SpecGap == GapInit /\ [][GapNext]_vars

\* ---------------------------------------------------------------- dashboard path engine
\* RecommendationEngine.generate_learning_path of services/recommendation_engine.py.
\* Skill levels are held in tenths of a point.
EngineSkills == {"Python", "python"}
EngineLevelChoices == {30, 70}

\* PROFICIENT_THRESHOLD = 7.0
PROFICIENT_THRESHOLD == 70

\* str.lower()
Lower(skill) == IF skill = "Python" THEN "python" ELSE skill

\* every target skill taken as a gap, whatever its level
EngineSkillGapsAllTargets(levels, targets) == [i \in 1..Len(targets) |-> Lower(targets[i])]

\* skill_gaps: the lowercased target skills whose level is below the threshold
RECURSIVE EngineSkillGaps(_, _)
EngineSkillGaps(levels, targets) ==
    IF targets = <<>> THEN <<>>
    ELSE (IF LevelOf(levels, Head(targets)) < PROFICIENT_THRESHOLD
          THEN <<Lower(Head(targets))>> ELSE <<>>)
         \o EngineSkillGaps(levels, Tail(targets))

\* the rows of the course query: skills_taught ?| skill_gaps
RECURSIVE CoursesCovering(_, _)
CoursesCovering(courses, gaps) ==
    IF courses = <<>> THEN <<>>
    ELSE (IF Head(courses).skills_taught \cap Range(gaps) # {}
          THEN <<Head(courses)>> ELSE <<>>)
         \o CoursesCovering(Tail(courses), gaps)

\* the for-loop over courses: the path and the covered skills after it
RECURSIVE BuildPath(_, _, _)
BuildPath(courses, path, covered) ==
    IF courses = <<>> THEN [learning_path |-> path, covered_skills |-> covered]
    ELSE LET course == Head(courses)
             new_skills == course.skills_taught \ covered
         IN  IF ~(course.prerequisites \subseteq covered)
             THEN BuildPath(Tail(courses), path, covered)
             ELSE IF new_skills = {}
             THEN BuildPath(Tail(courses), path, covered)
             ELSE BuildPath(Tail(courses),
                            Append(path, [id |-> course.id,
                                          skills_covered |-> new_skills,
                                          estimated_hours |-> course.estimated_duration_hours,
                                          sequence |-> NextSequence(path)]),
                            covered \cup new_skills)

RECURSIVE SumEstimatedHours(_)
SumEstimatedHours(path) ==
    IF path = <<>> THEN 0 ELSE Head(path).estimated_hours + SumEstimatedHours(Tail(path))

\* [s for s in skill_gaps if s not in covered_skills]
RECURSIVE RemainingGaps(_, _)
RemainingGaps(gaps, covered) ==
    IF gaps = <<>> THEN <<>>
    ELSE (IF Head(gaps) \notin covered THEN <<Head(gaps)>> ELSE <<>>)
         \o RemainingGaps(Tail(gaps), covered)

\* 1 in place of 10 for a profile without study hours
EngineStudyHoursOne(hours) == IF hours # 0 THEN hours ELSE 1

\* profile.study_hours_per_week or 10
EngineStudyHours(hours) == IF hours # 0 THEN hours ELSE 10

\* what generate_learning_path returns: [] without a goal, else the path and its
\* metadata (estimated_completion_date, the clock plus estimated_weeks, is left out)
EngineLearningPath(prof, goal, courses) ==
    IF ~goal.present THEN [EngineNoResult EXCEPT !.called = TRUE]
    ELSE LET levels == prof.skill_levels
             gaps == EngineSkillGaps(levels, goal.target_skills)
             built == BuildPath(CoursesCovering(courses, gaps), <<>>,
                                {skill \in DOMAIN levels :
                                    levels[skill] >= PROFICIENT_THRESHOLD})
             total_hours == SumEstimatedHours(built.learning_path)
         IN  [called |-> TRUE, has_metadata |-> TRUE,
              learning_path |-> built.learning_path,
              metadata |->
                  [total_courses |-> Len(built.learning_path),
                   total_hours |-> total_hours,
                   estimated_weeks |-> Ceil(total_hours, EngineStudyHours(prof.study_hours)),
                   skills_covered |-> built.covered_skills,
                   remaining_gaps |-> RemainingGaps(gaps, built.covered_skills)]]

EngineCourseShapes ==
    [skills_taught : SUBSET EngineSkills,
     prerequisites : {q \in SUBSET EngineSkills : Cardinality(q) <= 1},
     estimated_duration_hours : HourChoices]

\* the rows of courses, in the order of the query; the row at position i has id i
IsEngineCatalog(courses, n) ==
    \E shapes \in [1..n -> EngineCourseShapes] :
        courses = [i \in 1..n |->
                      [id |-> i, skills_taught |-> shapes[i].skills_taught,
                       prerequisites |-> shapes[i].prerequisites,
                       estimated_duration_hours |-> shapes[i].estimated_duration_hours]]

IsEngineProfile(prof) ==
    \/ prof = EngineNoProfile
    \/ \E D \in SUBSET EngineSkills : \E f \in [D -> EngineLevelChoices] :
       \E hours \in StudyHourChoices :
          prof = [present |-> TRUE, skill_levels |-> f, study_hours |-> hours]

IsEngineGoal(goal) ==
    \/ goal = EngineNoGoal
    \/ \E T \in SUBSET EngineSkills : \E order \in IterationOrders(T) :
          goal = [present |-> TRUE, target_skills |-> order]

EngineInitUpTo(max_n) ==
    /\ PlannerIdle
    /\ SnapshotIdle
    /\ RecommendIdle
    /\ AdaptiveIdle
    /\ SkillIdle
    /\ GapIdle
    /\ ScoreIdle
    /\ LessonIdle
    /\ IsEngineProfile(engine_profile)
    /\ IsEngineGoal(engine_goal)
    /\ \E n \in 0..max_n : IsEngineCatalog(engine_courses, n)
    /\ engine_result = EngineNoResult

\* the engine called on up to MaxCourses matching courses
EngineInit == EngineInitUpTo(MaxCourses)

\* generate_learning_path(user_id, goal_id)
EngineGenerateLearningPath ==
    /\ ~engine_result.called
    /\ engine_result' = EngineLearningPath(engine_profile, engine_goal, engine_courses)
    /\ UNCHANGED <<engine_profile, engine_goal, engine_courses, plannerVars,
                   snapshotVars, recommendVars, adaptiveVars, skillVars, gapVars,
                   scoreVars, lessonVars>>

EngineNext == EngineGenerateLearningPath

SpecEngine == EngineInit /\ [][EngineNext]_vars

\* ---------------------------------------------------------------- planner
\* max_iterations = 20
\* a cap above the number of courses of the long catalogs
MaxIterationsRaised == 20 + 5

max_iterations == 20

CourseShapes ==
    [skills_taught : SUBSET Skills,
     prerequisites : {p \in SUBSET Skills : Cardinality(p) <= 1},
     estimated_duration_hours : HourChoices]

MkCourse(id, shape) ==
    [id |-> id,
     skills_taught |-> shape.skills_taught,
     prerequisites |-> shape.prerequisites,
     estimated_duration_hours |-> shape.estimated_duration_hours]

\* all_courses is a list of n published courses with distinct ids, in any order
IsCatalog(courses, n) ==
    \E p \in Permutations1(n) : \E s \in [1..n -> CourseShapes] :
        courses = [i \in 1..n |-> MkCourse(p[i], s[i])]

\* twice the score of one course inside the for-loop (exact for 1, 2 and 4 hours):
\*   score = len(new_skills); score += len(new_skills) * 0.5
\*   if course.estimated_duration_hours: score += (1 / hours) * 2
CourseScore(course, gaps) ==
    LET new_skills == course.skills_taught \cap gaps
        h == course.estimated_duration_hours
    IN  2 * Cardinality(new_skills) + Cardinality(new_skills)
        + (IF h # 0 THEN 4 \div h ELSE 0)

\* the prerequisite check left out
EligibleNoPrereqCheck(course, chosen, learned) ==
    course.id \notin chosen

\* the check for courses already on the path left out
EligibleNoChosenCheck(course, chosen, learned) ==
    ~(course.prerequisites # {} /\ ~(course.prerequisites \subseteq learned))

\* a course the for-loop does not `continue` past
Eligible(course, chosen, learned) ==
    /\ course.id \notin chosen
    /\ ~(course.prerequisites # {} /\ ~(course.prerequisites \subseteq learned))

\* the for-loop over all_courses from position i on: best is the index of
\* best_course (0 for None), best_score its score
RECURSIVE ScanCourses(_, _, _, _, _, _, _)
ScanCourses(courses, i, best, best_score, chosen, learned, gaps) ==
    IF i > Len(courses) THEN best
    ELSE LET c == courses[i]
             score == CourseScore(c, gaps)
         IN  IF Eligible(c, chosen, learned) /\ score > best_score
             THEN ScanCourses(courses, i + 1, i, score, chosen, learned, gaps)
             ELSE ScanCourses(courses, i + 1, best, best_score, chosen, learned, gaps)

\* a selection that picks any of the best-scoring courses (random tie-break)
BestCoursesAnyTie(courses, chosen, learned, gaps) ==
    {i \in 1..Len(courses) :
        /\ Eligible(courses[i], chosen, learned)
        /\ CourseScore(courses[i], gaps) > 0
        /\ \A j \in 1..Len(courses) :
              Eligible(courses[j], chosen, learned)
                  => CourseScore(courses[j], gaps) <= CourseScore(courses[i], gaps)}

\* the values best_course can have after the for-loop (as indexes; {} for None)
BestCourses(courses, chosen, learned, gaps) ==
    LET b == ScanCourses(courses, 1, 0, 0, chosen, learned, gaps)
    IN  IF b = 0 THEN {} ELSE {b}

ChosenIds(path) == {path[k].course.id : k \in 1..Len(path)}

\* the dict the planner returns
PathResult(path, learned) ==
    LET total_hours == SumHours([k \in 1..Len(path) |->
                                    path[k].course.estimated_duration_hours])
        shpw == IF study_hours_per_week # 0 THEN study_hours_per_week ELSE 5
    IN  [learning_path |-> [k \in 1..Len(path) |->
                               [sequence |-> path[k].sequence_number,
                                course_id |-> path[k].course.id,
                                skills_gained |-> path[k].skills_to_learn,
                                prerequisites |-> path[k].course.prerequisites]],
         total_hours |-> total_hours,
         estimated_weeks |-> IF shpw > 0 THEN Ceil(total_hours, shpw) ELSE 0,
         skills_to_learn |-> target_skills \ current_skills,
         completion_percentage |->
             IF target_skills # {}
             THEN (Cardinality(learned \cap target_skills) * 100)
                      \div Cardinality(target_skills)
             ELSE 0]

PlannerInitUpTo(max_n) ==
    /\ AdaptiveIdle
    /\ SkillIdle
    /\ GapIdle
    /\ EngineIdle
    /\ LessonIdle
    /\ ScoreIdle
    /\ SnapshotIdle
    /\ RecommendIdle
    /\ \E n \in 0..max_n : IsCatalog(all_courses, n)
    /\ current_skills \in SUBSET Skills
    /\ target_skills \in SUBSET Skills
    /\ study_hours_per_week \in StudyHourChoices
    /\ inv = 1
    /\ pc = "loop"
    /\ path_courses = <<>>
    /\ learned_skills = current_skills
    /\ skill_gaps = target_skills \ current_skills
    /\ iteration = 0
    /\ results = <<>>

\* the planner called on a catalog of up to MaxCourses courses
PlannerInit == PlannerInitUpTo(MaxCourses)

\* one pass of `while skill_gaps and iteration < max_iterations` that finds a course
SelectCourse ==
    /\ pc = "loop"
    /\ skill_gaps # {} /\ iteration < max_iterations
    /\ \E b \in BestCourses(all_courses, ChosenIds(path_courses), learned_skills, skill_gaps) :
         LET best_course == all_courses[b]
         IN  /\ path_courses' = Append(path_courses,
                    [course |-> best_course,
                     skills_to_learn |-> best_course.skills_taught \cap skill_gaps,
                     sequence_number |-> NextSequence(path_courses)])
             /\ learned_skills' = learned_skills \cup best_course.skills_taught
             /\ skill_gaps' = target_skills \ (learned_skills \cup best_course.skills_taught)
    /\ iteration' = iteration + 1
    /\ UNCHANGED <<all_courses, current_skills, target_skills, study_hours_per_week,
                   inv, pc, results, snapshotVars, recommendVars, adaptiveVars, skillVars, gapVars, engineVars,
                   scoreVars, lessonVars>>

\* the loop ends (condition false, or no best_course: break) and the result is built
FinishPath ==
    /\ pc = "loop"
    /\ ~(skill_gaps # {} /\ iteration < max_iterations
            /\ BestCourses(all_courses, ChosenIds(path_courses),
                           learned_skills, skill_gaps) # {})
    /\ results' = Append(results, PathResult(path_courses, learned_skills))
    /\ pc' = "done"
    /\ UNCHANGED <<all_courses, current_skills, target_skills, study_hours_per_week,
                   inv, path_courses, learned_skills, skill_gaps, iteration,
                   snapshotVars, recommendVars, adaptiveVars, skillVars, gapVars, engineVars,
                   scoreVars, lessonVars>>

\* the planner is invoked a second time on the same profile, goal and catalog
InvokeAgain ==
    /\ pc = "done" /\ inv = 1
    /\ inv' = 2
    /\ pc' = "loop"
    /\ path_courses' = <<>>
    /\ learned_skills' = current_skills
    /\ skill_gaps' = target_skills \ current_skills
    /\ iteration' = 0
    /\ UNCHANGED <<all_courses, current_skills, target_skills, study_hours_per_week,
                   results, snapshotVars, recommendVars, adaptiveVars, skillVars, gapVars, engineVars,
                   scoreVars, lessonVars>>

PlannerNext == SelectCourse \/ FinishPath

\* one invocation of the planner
SpecPlanner == PlannerInit /\ [][PlannerNext]_vars

PlannerTwiceNext == SelectCourse \/ FinishPath \/ InvokeAgain

\* two invocations of the planner, one after the other, on the same inputs
SpecPlannerTwice == PlannerInit /\ [][PlannerTwiceNext]_vars

\* catalogs longer than the iteration cap: courses of one hour that teach nothing
\* and require nothing, followed by at most one course of any shape
MaxLongCourses == 22

LongFiller == [skills_taught |-> {}, prerequisites |-> {}, estimated_duration_hours |-> 1]

IsLongCatalog(courses, n) ==
    \/ courses = [i \in 1..n |-> MkCourse(i, LongFiller)]
    \/ \E shape \in CourseShapes :
          courses = [i \in 1..(n + 1) |->
                        IF i <= n THEN MkCourse(i, LongFiller) ELSE MkCourse(i, shape)]

LongInit ==
    /\ AdaptiveIdle
    /\ SkillIdle
    /\ GapIdle
    /\ EngineIdle
    /\ LessonIdle
    /\ ScoreIdle
    /\ SnapshotIdle
    /\ RecommendIdle
    /\ \E n \in 0..MaxLongCourses : IsLongCatalog(all_courses, n)
    /\ current_skills \in SUBSET Skills
    /\ target_skills \in SUBSET Skills
    /\ study_hours_per_week \in StudyHourChoices
    /\ inv = 1
    /\ pc = "loop"
    /\ path_courses = <<>>
    /\ learned_skills = current_skills
    /\ skill_gaps = target_skills \ current_skills
    /\ iteration = 0
    /\ results = <<>>

\* one invocation on a long catalog; the method runs to its return once called
SpecPlannerLong == LongInit /\ [][PlannerNext]_vars /\ WF_vars(PlannerNext)

\* the skill assessor with an attempt history loaded
HistoryOnlyInit ==
    /\ PlannerIdle
    /\ SnapshotIdle
    /\ RecommendIdle
    /\ AdaptiveIdle
    /\ GapIdle
    /\ EngineIdle
    /\ LessonIdle
    /\ ScoreIdle
    /\ history_level = NoLevel
    /\ skill_levels = <<>>
    /\ knowledge_gaps = {}
    /\ HistoryInit

\* sizes of the catalogs and of the answer list in the runs of the read-only operations
MaxReadCourses == 1
MaxReadAnswers == 4

\* the operations that only read: one call of one of them
ReadSideInit ==
    \/ PlannerInitUpTo(MaxReadCourses)
    \/ EngineInitUpTo(MaxReadCourses)
    \/ RankingInitUpTo(MaxReadCourses)
    \/ GapInit
    \/ HistoryOnlyInit
    \/ AdaptiveInitUpTo(MaxReadAnswers)

\* in a run of several operations each is called only while the others have not
\* been given anything to work on
ReadSideNext ==
    \/ SelectCourse
    \/ FinishPath
    \/ (PlannerIdle /\ RecommendIdle /\ GapIdle /\ SkillIdle /\ AdaptiveIdle
            /\ EngineGenerateLearningPath)
    \/ (PlannerIdle /\ EngineIdle /\ GapIdle /\ SkillIdle /\ AdaptiveIdle
            /\ RecommendNext)
    \/ (PlannerIdle /\ EngineIdle /\ RecommendIdle /\ SkillIdle /\ AdaptiveIdle
            /\ AnalyzeSkillGaps)
    \/ CalculateSkillFromHistory
    \/ (PlannerIdle /\ EngineIdle /\ RecommendIdle /\ GapIdle /\ SkillIdle
            /\ GetNextQuestion(1))

SpecReadSide == ReadSideInit /\ [][ReadSideNext]_vars

\* either path generator, called once
PathsInit == PlannerInit \/ EngineInit

PathsNext == SelectCourse \/ FinishPath \/ (PlannerIdle /\ EngineGenerateLearningPath)

SpecPaths == PathsInit /\ [][PathsNext]_vars

\* ---------------------------------------------------------------- claims: planner

\* skills known before step k of a path: current skills and what steps 1..k-1 teach
KnownBefore(path, k) ==
    current_skills \cup UNION {path[j].course.skills_taught : j \in 1..(k - 1)}

\* C1: in every path the planner builds, the prerequisites of the course at step k
\* are contained in the learner's current skills united with the skills taught by
\* the courses at steps 1..k-1.
C1_PrerequisitesMet ==
    \A k \in 1..Len(path_courses) :
        path_courses[k].course.prerequisites \subseteq KnownBefore(path_courses, k)

\* a finished path whose second course needs a skill the learner did not have and
\* the first course taught
C1_Witness ==
    /\ pc = "done"
    /\ Len(path_courses) >= 2
    /\ path_courses[2].course.prerequisites # {}
    /\ ~(path_courses[2].course.prerequisites \subseteq current_skills)

\* C2: no course id appears in more than one step of a path.
C2_NoCourseTwice ==
    \A i, j \in 1..Len(path_courses) :
        path_courses[i].course.id = path_courses[j].course.id => i = j

\* a finished path of two steps whose first course still scored above 0 in the
\* second pass of the loop (only the check for chosen courses keeps it out)
C2_Witness ==
    /\ pc = "done"
    /\ Len(path_courses) >= 2
    /\ CourseScore(path_courses[1].course,
                   target_skills \ (current_skills \cup path_courses[1].course.skills_taught)) > 0

AllCommitted == \A r \in Requests : requests[r].pc \in {"idle", "done"}

\* C3: once every generate-learning-path request has committed, at most one
\* snapshot of a learner and goal has active = true.
C3_AtMostOneActive ==
    AllCommitted =>
        \A u \in Users, g \in Goals : Cardinality(ActivePaths(snapshots, u, g)) <= 1

\* ---------------------------------------------------------------- claims: recommendations

SubScores == {"skill_match", "difficulty_match", "goal_alignment", "popularity",
              "prerequisite_ready"}

\* C5: for every scored course, 0 <= total <= 100 and total is the sum of the five
\* sub-scores skill_match, difficulty_match, goal_alignment, popularity and
\* prerequisite_ready, whatever the number of active goals and the enrollment count.
C5_TotalInRange ==
    \A k \in 1..Len(scored_courses) :
        LET score == scored_courses[k].score
        IN  /\ 0 <= score["total"] /\ score["total"] <= Points(100)
            /\ score["total"] = score["skill_match"] + score["difficulty_match"]
                                + score["goal_alignment"] + score["popularity"]
                                + score["prerequisite_ready"]

\* a course was scored for a learner whose goals add up to more than 25 points of
\* alignment and whose enrollments exceed 100: both caps are at work
C5_Witness ==
    /\ Len(scored_courses) = 1
    /\ GoalPointsSum(scored_courses[1].course, user_context.learning_goals) > 25
    /\ scored_courses[1].course.total_enrollments > 100
    /\ scored_courses[1].score["total"] = Points(100)

\* C6: the ranking returns at most `limit` courses, ordered by total score
\* descending, and courses of equal total score in ascending course id order.
C6_RankedTiesById ==
    rec_limit >= 0 =>
    /\ Len(recommendations) <= rec_limit
    /\ \A i, j \in 1..Len(recommendations) :
          i < j =>
             /\ recommendations[i].recommendation_score
                    >= recommendations[j].recommendation_score
             /\ scored_courses[i].score["total"] = scored_courses[j].score["total"]
                    => recommendations[i].course_id < recommendations[j].course_id

\* ---------------------------------------------------------------- claims: adaptive

\* the target tier as the specification states it
C7_Target ==
    IF previous_answers = <<>> THEN "MEDIUM"
    ELSE IF 10 * CorrectCount(previous_answers) >= 8 * Len(previous_answers) THEN "HARD"
    ELSE IF 10 * CorrectCount(previous_answers) >= 5 * Len(previous_answers) THEN "MEDIUM"
    ELSE "EASY"

Unanswered ==
    {i \in 1..Len(all_questions) : all_questions[i].id \notin AnsweredIds(previous_answers)}

C10_LevelsInRange ==
    /\ skill_op = "history_done" /\ history_level # NoLevel
          => history_level \in 0..100
    /\ skill_op = "diagnostic_done"
          => /\ \A skill \in DOMAIN skill_levels : skill_levels[skill] \in 0..100
             /\ \A skill \in DOMAIN profile.skill_levels :
                   profile.skill_levels[skill] \in 0..100

\* a history of several perfect scores gives the top level
C10_Witness ==
    /\ skill_op = "history_done"
    /\ Len(SkillScores(attempts)) >= 2
    /\ history_level = 100

\* C11: calculate_skill_from_history returns None, never 0, for a skill that has
\* no score in any attempt (the empty attempt list included), and a number for a
\* skill that has one among the attempts read, so that an absent skill differs from
\* a level of 0.
C11_AbsentIsNone ==
    skill_op = "history_done" =>
        /\ (\A i \in 1..Len(attempts) : attempts[i] = NoScore) => history_level = NoLevel
        /\ (\E i \in 1..Min(Len(attempts), HistoryLimit) : attempts[i] # NoScore)
               => history_level \in 0..100

\* attempts exist, none holds a score for the skill, and None was returned
C11_Witness ==
    /\ skill_op = "history_done"
    /\ Len(attempts) >= 2
    /\ \A i \in 1..Len(attempts) : attempts[i] = NoScore
    /\ history_level = NoLevel

\* ---------------------------------------------------------------- claims: skill gaps

\* the number of target skills at level 7 or more, a missing skill counting as 0
C12_Acquired ==
    Cardinality({skill \in gap_analysis.target_skills :
                    /\ skill \in DOMAIN gap_profile.skill_levels
                    /\ gap_profile.skill_levels[skill] >= 70})

C17_SortedByPriorityThenName ==
    \A i, j \in 1..Len(gap_analysis.skill_gaps) :
        i < j =>
            LET a == gap_analysis.skill_gaps[i]
                b == gap_analysis.skill_gaps[j]
            IN  /\ PriorityRank(a.priority) <= PriorityRank(b.priority)
                /\ a.priority = b.priority => NameRank(a.skill) < NameRank(b.skill)

\* ---------------------------------------------------------------- claims: both path generators

\* the target skills of the engine's goal whose level is below 7, in lowercase,
\* less the skills the profile holds at level 7 or more
C13_EngineMissing ==
    {Lower(engine_goal.target_skills[i]) : i \in
        {j \in 1..Len(engine_goal.target_skills) :
            LevelOf(engine_profile.skill_levels, engine_goal.target_skills[j]) < 70}}
    \ {skill \in DOMAIN engine_profile.skill_levels :
          engine_profile.skill_levels[skill] >= 70}

\* C13 as stated: with an empty catalog and a goal with target skills the path is
\* empty and the remaining gaps equal the target skills.
C13_EmptyCatalogGapsAreTargets ==
    /\ \A k \in 1..Len(results) :
          (all_courses = <<>> /\ target_skills # {})
             => /\ results[k].learning_path = <<>>
                /\ results[k].skills_to_learn = target_skills
    /\ (/\ engine_result.called /\ engine_goal.present
        /\ engine_courses = <<>> /\ engine_goal.target_skills # <<>>)
          => /\ engine_result.has_metadata
             /\ engine_result.learning_path = <<>>
             /\ engine_result.metadata.remaining_gaps = engine_goal.target_skills

\* C13 amended: with an empty catalog and a goal with target skills the path is
\* empty and the remaining gaps are the target skills the learner does not have
\* yet: target_skills minus the profile's skills for the planner, the lowercased
\* target skills below the proficiency threshold for the engine.
C13_EmptyCatalogGapsAreMissing ==
    /\ \A k \in 1..Len(results) :
          (all_courses = <<>> /\ target_skills # {})
             => /\ results[k].learning_path = <<>>
                /\ results[k].skills_to_learn = target_skills \ current_skills
    /\ (/\ engine_result.called /\ engine_goal.present
        /\ engine_courses = <<>> /\ engine_goal.target_skills # <<>>)
          => /\ engine_result.has_metadata
             /\ engine_result.learning_path = <<>>
             /\ Range(engine_result.metadata.remaining_gaps) = C13_EngineMissing

\* empty catalog, two target skills, the learner proficient in one of them
C13_Witness ==
    /\ engine_result.called /\ engine_goal.present
    /\ engine_courses = <<>>
    /\ Len(engine_goal.target_skills) = 2
    /\ Len(engine_result.metadata.remaining_gaps) = 1

C16_SequenceContiguous ==
    /\ \A k \in 1..Len(results) : \A i \in 1..Len(results[k].learning_path) :
          results[k].learning_path[i].sequence = i
    /\ \A i \in 1..Len(engine_result.learning_path) :
          engine_result.learning_path[i].sequence = i

\* a path of two steps
C16_Witness ==
    /\ Len(results) = 1
    /\ Len(results[1].learning_path) = 2
    /\ results[1].learning_path[2].sequence = 2

\* ---------------------------------------------------------------- claims: planner search

\* the skills some prerequisite-respecting sequence of the courses with the given
\* positions can teach, started from the known skills
RECURSIVE C18_Reachable(_, _)
C18_Reachable(known, positions) ==
    LET usable == {i \in positions : all_courses[i].prerequisites \subseteq known}
        more == known \cup UNION {all_courses[i].skills_taught : i \in usable}
    IN  IF more = known THEN known ELSE C18_Reachable(more, positions)

\* C18: when the planner stops below the iteration cap with gap skills remaining,
\* no prerequisite-respecting sequence of the courses not yet chosen, started from
\* the learned skills, teaches a remaining gap skill.
C18_RemainingGapsUnreachable ==
    (pc = "done" /\ iteration < max_iterations /\ skill_gaps # {})
        => C18_Reachable(learned_skills,
                         {i \in 1..Len(all_courses) :
                             all_courses[i].id \notin ChosenIds(path_courses)})
               \cap skill_gaps = {}

\* C19: the course chosen in an iteration is a candidate (not yet chosen,
\* prerequisites within the learned skills) of maximal score, and of the smallest
\* course id among the candidates of that score.
C19_BestScoreSmallestId ==
    [][Len(path_courses') = Len(path_courses) + 1 =>
          LET best_course == path_courses'[Len(path_courses')].course
          IN  /\ best_course.id \notin ChosenIds(path_courses)
              /\ best_course.prerequisites \subseteq learned_skills
              /\ \A i \in 1..Len(all_courses) :
                    (/\ all_courses[i].id \notin ChosenIds(path_courses)
                     /\ all_courses[i].prerequisites \subseteq learned_skills)
                       => /\ CourseScore(all_courses[i], skill_gaps)
                                <= CourseScore(best_course, skill_gaps)
                          /\ CourseScore(all_courses[i], skill_gaps)
                                = CourseScore(best_course, skill_gaps)
                                => best_course.id <= all_courses[i].id]_vars

\* a course not yet chosen, with its prerequisites learned, that scores above 0
C20_CandidateAboveZero ==
    \E i \in 1..Len(all_courses) :
        /\ all_courses[i].id \notin ChosenIds(path_courses)
        /\ all_courses[i].prerequisites \subseteq learned_skills
        /\ CourseScore(all_courses[i], skill_gaps) > 0

\* C20: the selection loop terminates after at most 20 iterations, so a path has at
\* most 20 steps; a step is added only while gap skills remain and a candidate
\* scores above 0, and the loop ends at the cap, on an empty gap set, or when no
\* candidate scores above 0.
C20_TerminatesWithinCap ==
    /\ [](iteration <= 20 /\ Len(path_courses) <= 20)
    /\ <>(pc = "done")
    /\ [][path_courses' # path_courses
             => (skill_gaps # {} /\ C20_CandidateAboveZero)]_vars
    /\ [](pc = "done" => (iteration = 20 \/ skill_gaps = {} \/ ~C20_CandidateAboveZero))

\* the cap ended the loop: 20 steps, a gap skill left and a candidate still scoring
C20_Witness ==
    /\ pc = "done"
    /\ iteration = 20
    /\ Len(path_courses) = 20
    /\ skill_gaps # {}
    /\ C20_CandidateAboveZero

\* ---------------------------------------------------------------- claims: frame

\* C15: course scoring and ranking, path planning, skill-gap analysis, skill
\* estimation from history and next-question selection leave the stored profile,
\* goals, course catalog, questions and attempts as they were before the call.
C15_ReadSideLeavesStoreUnchanged ==
    [][/\ UNCHANGED <<all_courses, current_skills, target_skills, study_hours_per_week>>
       /\ UNCHANGED <<engine_profile, engine_goal, engine_courses>>
       /\ UNCHANGED <<available_courses, user_context>>
       /\ UNCHANGED <<gap_profile, gap_goals>>
       /\ UNCHANGED <<attempts, profile>>
       /\ UNCHANGED <<all_questions, previous_answers>>]_vars

\* the estimator returned a level from a stored history
C15_Witness ==
    /\ skill_op = "history_done"
    /\ attempts # <<>>
    /\ history_level # NoLevel
    /\ profile = NoProfile

\* ---------------------------------------------------------------- claims: sub-scores

\* ordinal of a tier as the documentation counts it
C21_Tier(level) ==
    CASE level = "beginner" -> 1
      [] level = "intermediate" -> 2
      [] level = "advanced" -> 3
      [] level = "expert" -> 4

\* C21: difficulty_match follows the ordinal distance between the course's tier and
\* the preferred tier: 20 when equal, 15 when the course is one tier harder, 10 when
\* one tier easier, max(0, 20 - 5*diff) when two or more apart.
C21_DifficultyByDistance ==
    \A k \in 1..Len(scored_courses) :
        LET course_tier == C21_Tier(scored_courses[k].course.difficulty_level)
            preferred_tier == C21_Tier("intermediate")
            diff == IF course_tier >= preferred_tier THEN course_tier - preferred_tier
                    ELSE preferred_tier - course_tier
            expected == IF diff = 0 THEN 20
                        ELSE IF diff = 1 /\ course_tier > preferred_tier THEN 15
                        ELSE IF diff = 1 THEN 10
                        ELSE Max(0, 20 - 5 * diff)
        IN  scored_courses[k].score["difficulty_match"] = Points(expected)

\* C22: skill_match is 40 * |skills_taught \cap target_skills| / |skills_taught \cup
\* target_skills| and 0 when either set is empty; prerequisite_ready is 5 for a course
\* without prerequisites.
C22_JaccardAndReady ==
    \A k \in 1..Len(scored_courses) :
        LET taught == scored_courses[k].course.skills_taught
            targets == UNION {user_context.learning_goals[g].target_skills :
                                 g \in 1..Len(user_context.learning_goals)}
            score == scored_courses[k].score
        IN  /\ (taught = {} \/ targets = {}) => score["skill_match"] = 0
            /\ (taught # {} /\ targets # {}) =>
                   score["skill_match"] * Cardinality(taught \cup targets)
                       = Points(40) * Cardinality(taught \cap targets)
            /\ scored_courses[k].course.prerequisites = {} =>
                   score["prerequisite_ready"] = Points(5)

\* a course teaching exactly {python} without prerequisites, scored for a learner
\* whose goals target {python} and who has no skills: 40 and 5
C22_Witness ==
    /\ Len(scored_courses) = 1
    /\ scored_courses[1].course.skills_taught = {"python"}
    /\ scored_courses[1].course.prerequisites = {}
    /\ user_context.current_skills = {}
    /\ Len(user_context.learning_goals) = 1
    /\ user_context.learning_goals[1].target_skills = {"python"}
    /\ scored_courses[1].score["skill_match"] = Points(40)
    /\ scored_courses[1].score["prerequisite_ready"] = Points(5)

\* ---------------------------------------------------------------- claims: history

\* the level of the claim: from the first HistoryLimit samples of the skill
C23_FromSamplesOfSkill ==
    LET samples == Take(SkillScores(attempts), HistoryLimit)
    IN  IF samples = <<>> THEN NoLevel
        ELSE RoundDiv(WeightedSum(samples, 1), WeightSum(samples, 1))

\* C23: the estimated level of a skill is computed from up to the 10 most recent
\* accuracy samples of that skill, the i-th most recent (i from 0) weighted by
\* 1/(i+1), as round(10 * weighted average, 1).
C23_TenSamplesOfSkill ==
    skill_op = "history_done" => history_level = C23_FromSamplesOfSkill

\* ---------------------------------------------------------------- claims: adaptive score

\* the weighted sum of the claim over the answered questions, doubled
RECURSIVE C24_WeightedSum2(_, _)
C24_WeightedSum2(answers, only_correct) ==
    IF answers = <<>> THEN 0
    ELSE (IF only_correct /\ ~Head(answers).is_correct THEN 0
          ELSE WeightedPoints2(score_questions, Head(answers)))
             + C24_WeightedSum2(Tail(answers), only_correct)

C25_EveryStepGains ==
    \A k \in 1..Len(path_courses) : path_courses[k].skills_to_learn # {}

\* ---------------------------------------------------------------- claims: sessions

C27_CommitsAlone(r) ==
    /\ requests[r].pc = "loaded"
    /\ requests'[r].pc = "done"
    /\ requests[r].seen = Len(snapshots)
    /\ \A other \in Requests \ {r} : requests[other].pc # "loaded"

\* C27: after a generate-learning-path request for a learner and goal completes without
\* concurrency, exactly one snapshot of that learner and goal is active, it is the one
\* just created, every snapshot of that learner and goal that was active is inactive,
\* and the snapshots of other goals or learners are unchanged.
C27_OneActiveAfterRequest ==
    [][\A r \in Requests :
          C27_CommitsAlone(r) =>
              LET u == requests[r].user_id
                  g == requests[r].goal_id
                  new == Len(snapshots) + 1
              IN  /\ Len(snapshots') = new
                  /\ requests'[r].new_snapshot = new
                  /\ snapshots'[new].user_id = u
                  /\ snapshots'[new].learning_goal_id = g
                  /\ {i \in 1..new : /\ snapshots'[i].user_id = u
                                      /\ snapshots'[i].learning_goal_id = g
                                      /\ snapshots'[i].active} = {new}
                  /\ \A i \in 1..Len(snapshots) :
                        IF snapshots[i].user_id = u /\ snapshots[i].learning_goal_id = g
                        THEN /\ ~snapshots'[i].active
                             /\ snapshots'[i].user_id = u
                             /\ snapshots'[i].learning_goal_id = g
                        ELSE snapshots'[i] = snapshots[i]]_vars

\* a request that ran alone has just replaced an active snapshot of its learner and
\* goal while a snapshot of another goal of the learner stays active
C27_Witness ==
    \E r \in Requests :
        LET u == requests[r].user_id
            g == requests[r].goal_id
        IN  /\ requests[r].pc = "done"
            /\ requests[r].new_snapshot = Len(snapshots)
            /\ requests[r].seen = Len(snapshots) - 1
            /\ requests[r].old_paths # {}
            /\ \A other \in Requests \ {r} : requests[other].pc # "loaded"
            /\ \A i \in requests[r].old_paths : ~snapshots[i].active
            /\ snapshots[Len(snapshots)].active
            /\ \E i \in 1..Len(snapshots) :
                  /\ snapshots[i].user_id = u
                  /\ snapshots[i].learning_goal_id # g
                  /\ snapshots[i].active

\* C28: in every state reachable by generate-learning-path requests,
\* get_current_learning_path without goal_id terminates normally: has_path = false
\* when the learner has no active snapshot, otherwise one active snapshot of that
\* learner, never an error.
C28_CurrentPathNeverRaises ==
    current_path.called =>
        /\ ~current_path.raised
        /\ current_path.has_path =>
               /\ current_path.snapshot_id \in 1..Len(snapshots)
               /\ snapshots[current_path.snapshot_id].user_id = current_path.user_id

\* ---------------------------------------------------------------- claims: next lesson

\* the lessons of the course that are not completed and whose prerequisite lessons are
C29_Eligible ==
    {i \in 1..Len(lessons_with_modules) :
        /\ lessons_with_modules[i].id \notin completed_lesson_ids
        /\ lessons_with_modules[i].prerequisites \subseteq completed_lesson_ids}

\* C29: recommend_next_lesson never returns a completed lesson or one with an
\* uncompleted prerequisite lesson; what it returns is the first eligible lesson in
\* (module order, lesson order); and for an existing enrollment it returns None only
\* when every lesson of the course is completed.
C29_FirstEligibleOrComplete ==
    (next_lesson.called /\ lesson_enrolled) =>
        /\ next_lesson.lesson_id # 0 =>
               \E i \in C29_Eligible :
                   /\ lessons_with_modules[i].id = next_lesson.lesson_id
                   /\ \A j \in C29_Eligible : i <= j
        /\ next_lesson.lesson_id = 0 =>
               \A i \in 1..Len(lessons_with_modules) :
                   lessons_with_modules[i].id \in completed_lesson_ids

\* ---------------------------------------------------------------- claims: stored levels

\* the stored level of a skill, a skill without one counting as 0
C30_Stored(p, skill) ==
    IF skill \in DOMAIN p.skill_levels THEN p.skill_levels[skill] ELSE 0

\* C30: across any sequence of process_diagnostic_assessment calls for a learner who
\* has a profile, no stored level decreases: after each call the stored level of each
\* assessed skill is the maximum of its previous stored level and the new level, and
\* the levels of the skills not assessed are unchanged.
C30_StoredLevelIsMax ==
    [][(skill_op = "diagnostic" /\ skill_op' = "diagnostic_done" /\ profile.present) =>
          \A skill \in Skills :
              /\ C30_Stored(profile', skill) >= C30_Stored(profile, skill)
              /\ skill \in DOMAIN skill_levels' =>
                     C30_Stored(profile', skill)
                         = Max(C30_Stored(profile, skill), skill_levels'[skill])
              /\ skill \notin DOMAIN skill_levels' =>
                     C30_Stored(profile', skill) = C30_Stored(profile, skill)]_vars

====
